---- MODULE Spec2Model ----
(***************************************************************************)
(* fastapi-ws-router: the WSRouter message-routing core                    *)
(* (src/src/fastapi_ws_router/router.py, route.py) as a state machine.     *)
(*                                                                         *)
(* Router state: the ordered handler mapping, the route list, the lazily   *)
(* built adapter, the on-connect hook slot and the dependency list.        *)
(* Per connection: the position of the serving task inside                 *)
(* WSMainRoute.handle / WSRouter.handler, the connection object's          *)
(* application state, the frames the peer has sent and not yet been read,  *)
(* and the record of every hook and handler invocation.                    *)
(*                                                                         *)
(* Python's Optional[T] is a sequence of length 0 (None) or 1.             *)
(***************************************************************************)
EXTENDS Integers, Sequences, FiniteSets, TLC

VARIABLES
    mapping,          \* self.mapping: ordered dict, a sequence of <<model, func>>
    routes,           \* self.routes: sequence of route records
    adapter,          \* self._adapter: <<>> (None) or <<sequence of models>>
    on_connect_hook,  \* the function bound to self._on_connect
    fallback_hook,    \* the function bound to self._fallback
    dispatcher,       \* self.dispatcher: "_dispatcher" or the custom one
    as_text,          \* self.as_text: read text frames (TRUE) or binary frames
    regs,             \* every receive registration made, in call order
    response,         \* the host router's answer to the last routed request
    pc,               \* per connection: position of the serving task
    app_state,        \* per connection: WebSocket.application_state
    scope,            \* per connection: the connection scope (subprotocols, header)
    inbox,            \* per connection: frames sent by the peer, not yet read
    message,          \* per connection: the local variable `message` of handler
    calls,            \* per connection: hook / handler invocations, in order
    sent,             \* per connection: every frame the peer has sent, in order
    client            \* per connection: what the peer observes

vars == <<mapping, routes, adapter, on_connect_hook, fallback_hook, dispatcher, as_text, regs,
          response, pc, app_state, scope, inbox, message, calls, sent, client>>

routerVars == <<mapping, routes, adapter, on_connect_hook, fallback_hook, dispatcher, as_text, regs,
                response>>

\* The per-connection state.
connVars == <<pc, app_state, scope, inbox, message, calls, sent, client>>

(***************************************************************************)
(* Bounds                                                                  *)
(***************************************************************************)
MaxMsgs == 2      \* frames a peer sends on one connection
MaxRegs == 2      \* receive registrations on the router
MaxConcurrentMsgs == 1   \* frames a peer sends on a connection served concurrently

Conns == {"ws1", "ws2"}

(***************************************************************************)
(* Message schemas (tests/test_ws.py) and raw messages                     *)
(***************************************************************************)
Models == {"UserMessage", "PostMessage", "Message"}

Funcs == {"get_user_message", "get_post_message", "handler"}

\* The declared fields of a model, in declaration order.
FieldsOf(model) ==
    IF model = "Message" THEN <<>>
    ELSE IF model = "UserMessage"
    THEN << [name |-> "message_type", ty |-> "Literal", lit |-> "user"],
            [name |-> "user_id",      ty |-> "int",     lit |-> ""],
            [name |-> "user_name",    ty |-> "str",     lit |-> ""] >>
    ELSE << [name |-> "message_type", ty |-> "Literal", lit |-> "post"],
            [name |-> "post_id",      ty |-> "int",     lit |-> ""],
            [name |-> "post_content", ty |-> "str",     lit |-> ""] >>

\* The discriminator tag of a model: the literal of its message_type field.
TagOf(model) == FieldsOf(model)[1].lit

\* A raw text message: whether the text is a JSON object, the text itself when
\* it is not, and the object's members <<key, JSON type, value>> when it is.
MsgUser ==
    [json |-> TRUE, text |-> "",
     kv |-> << <<"message_type", "str", "user">>, <<"user_id", "int", "1">>,
               <<"user_name", "str", "John">> >>]

MsgPost ==
    [json |-> TRUE, text |-> "",
     kv |-> << <<"message_type", "str", "post">>, <<"post_id", "int", "1">>,
               <<"post_content", "str", "Hello, world!">> >>]

MsgInvalid ==
    [json |-> TRUE, text |-> "",
     kv |-> << <<"message_type", "str", "invalid">>, <<"user_id", "int", "1">>,
               <<"user_name", "str", "John">> >>]

MsgNoTag ==
    [json |-> TRUE, text |-> "",
     kv |-> << <<"user_id", "int", "1">>, <<"user_name", "str", "John">> >>]

MsgEmpty == [json |-> FALSE, text |-> "", kv |-> <<>>]

Msgs == {MsgUser, MsgPost, MsgInvalid, MsgNoTag, MsgEmpty}

\* The close frames a peer may send: <<code, reason>>.
Closes == { <<1000, "">>, <<1001, "going away">> }

\* Connection scopes: the offered subprotocols and the X-Token header.
Scopes ==
    { [subprotocols |-> {},       x_token |-> "dont_fail"],
      [subprotocols |-> {"Fail"}, x_token |-> "dont_fail"],
      [subprotocols |-> {},       x_token |-> "fail"] }

NotConnected == "RuntimeError: WebSocket is not connected. Need to call \"accept\" first."

ValidationError == "ValidationError"

\* The error the binary fallback of main.py hands to the fallback hook.
NoTextReceived == "KeyError: No text received"

(***************************************************************************)
(* Schema validation: TypeAdapter.validate_json                            *)
(***************************************************************************)
\* Does member m of a JSON object satisfy the declared field f?
MemberFits(m, f) ==
    /\ m[1] = f.name
    /\ \/ f.ty = "Literal" /\ m[2] = "str" /\ m[3] = f.lit
       \/ f.ty = "int" /\ m[2] = "int"
       \/ f.ty = "str" /\ m[2] = "str"

\* The raw message parses as JSON and every declared field of the model is
\* present with a conforming value (extra members are ignored).
ValidatesAs(model, raw) ==
    /\ raw.json
    /\ \A i \in 1..Len(FieldsOf(model)) :
          \E j \in 1..Len(raw.kv) : MemberFits(raw.kv[j], FieldsOf(model)[i])

\* The value of member `key` of the object.
Member(raw, key) ==
    LET j == CHOOSE j \in 1..Len(raw.kv) : raw.kv[j][1] = key
    IN  raw.kv[j][3]

\* The typed value built from a raw message that validates as the model.
Construct(model, raw) ==
    [cls |-> model,
     data |-> [i \in 1..Len(FieldsOf(model)) |-> Member(raw, FieldsOf(model)[i].name)]]

\* (validate_json with the literal tag of a model left unchecked.)
validate_json_untagged(models, raw) ==
    LET fits(model) ==
            /\ raw.json
            /\ \A i \in 2..Len(FieldsOf(model)) :
                  \E j \in 1..Len(raw.kv) : MemberFits(raw.kv[j], FieldsOf(model)[i])
        ok == { i \in 1..Len(models) : fits(models[i]) }
    IN  IF ok = {} THEN <<>>
        ELSE LET i == CHOOSE i \in ok : \A k \in ok : i <= k
             IN  << [cls |-> models[i],
                     data |-> [n \in 1..Len(FieldsOf(models[i])) |->
                                  IF n = 1 THEN TagOf(models[i])
                                  ELSE Member(raw, FieldsOf(models[i])[n].name)]] >>

\* (validate_json refusing a message that carries no message_type member.)
validate_json_tag_required(models, raw) ==
    LET ok == { i \in 1..Len(models) :
                  /\ ValidatesAs(models[i], raw)
                  /\ \E j \in 1..Len(raw.kv) : raw.kv[j][1] = "message_type" }
    IN  IF ok = {} THEN <<>>
        ELSE LET i == CHOOSE i \in ok : \A k \in ok : i <= k
             IN  << Construct(models[i], raw) >>

\* validate_json against the adapter's models: the typed value of the leftmost
\* model the message validates as, or <<>> when it raises ValidationError.
validate_json(models, raw) ==
    LET ok == { i \in 1..Len(models) : ValidatesAs(models[i], raw) }
    IN  IF ok = {} THEN <<>>
        ELSE LET i == CHOOSE i \in ok : \A k \in ok : i <= k
             IN  << Construct(models[i], raw) >>

(***************************************************************************)
(* The ordered mapping                                                     *)
(***************************************************************************)
Keys(m) == [i \in 1..Len(m) |-> m[i][1]]

KeySet(m) == { m[i][1] : i \in 1..Len(m) }

\* mapping[model]: <<func>>, or <<>> when the lookup raises KeyError.
Lookup(m, model) ==
    IF model \in KeySet(m)
    THEN LET i == CHOOSE i \in 1..Len(m) : m[i][1] = model IN << m[i][2] >>
    ELSE <<>>

\* (self.mapping = {model: func}: the other bindings are dropped.)
SetItem_alone(m, model, func) == << <<model, func>> >>

\* (mapping.setdefault(model, func): the first binding of a key stays.)
SetItem_setdefault(m, model, func) ==
    IF model \in KeySet(m) THEN m ELSE Append(m, <<model, func>>)

\* mapping[model] = func: overwrite in place, or append a new key.
SetItem(m, model, func) ==
    IF model \in KeySet(m)
    THEN [i \in 1..Len(m) |-> IF m[i][1] = model THEN <<model, func>> ELSE m[i]]
    ELSE Append(m, <<model, func>>)

(***************************************************************************)
(* Invocation records                                                      *)
(***************************************************************************)
\* One invocation: the function called, its arguments (the connection, the
\* raw message, the validated value, the error, the close code and reason,
\* the mapping, whichever it takes) and what the call did.
Call(fn, ws, msg, val, err, code, reason, did) ==
    [fn |-> fn, ws |-> ws, msg |-> msg, val |-> val, err |-> err,
     code |-> code, reason |-> reason, map |-> <<>>, did |-> did]

OnConnectCall(ws, did) == Call("_on_connect", ws, <<>>, <<>>, <<>>, 0, "", did)

OnDisconnectCall(ws, code, reason) ==
    Call("_on_disconnect", ws, <<>>, <<>>, <<>>, code, reason, "return")

FallbackCall(ws, msg, err) == Call("_fallback", ws, msg, <<>>, err, 0, "", "return")

\* What the bound fallback hook does when it is awaited:
\* "return", "raise" or "raise_ValidationError".
FallbackEffect(hook) ==
    CASE hook = "_fallback"          -> "return"
      [] hook = "fallback_raises"    -> "raise"
      [] hook = "fallback_validates" -> "raise_ValidationError"

\* await self._fallback(websocket, message, error) with the hook bound.
await_fallback(hook, ws, msg, err) ==
    [FallbackCall(ws, msg, err) EXCEPT !.did = FallbackEffect(hook)]

HandlerCall(func, ws, val) == Call(func, ws, <<>>, <<val>>, <<>>, 0, "", "return")

\* dispatcher(websocket, mapping, message) of a custom dispatcher.
DispatcherCall(ws, m, raw) ==
    [Call("dispatcher", ws, <<raw>>, <<>>, <<>>, 0, "", "return") EXCEPT !.map = m]

\* What the peer observes.
Peer(st, code, reason) == [st |-> st, code |-> code, reason |-> reason]

\* A frame as the connection hands it over: a receive event carries either the
\* key "text" or the key "bytes" (the other one is absent, <<>>).
TextFrame(raw) ==
    [type |-> "text", text |-> <<raw>>, bytes |-> <<>>, code |-> 0, reason |-> ""]

BytesFrame(raw) ==
    [type |-> "bytes", text |-> <<>>, bytes |-> <<raw>>, code |-> 0, reason |-> ""]

CloseFrame(code, reason) ==
    [type |-> "disconnect", text |-> <<>>, bytes |-> <<>>, code |-> code, reason |-> reason]

(***************************************************************************)
(* Construction                                                            *)
(***************************************************************************)
\* A path is the sequence of its pieces; "" is the empty sequence.
MainRoute ==
    [cls |-> "WSMainRoute", path |-> <<>>, endpoint |-> "handler",
     methods |-> {"POST"}, include_in_schema |-> TRUE]

\* No request has been routed yet.
NoResponse == [type |-> "", path |-> <<>>, examined |-> 0, route |-> 0, status |-> 0]

OnConnectHooks == {"_on_connect", "reject_fail", "forgot", "raises"}

\* The default fallback, one that raises, and one that validates the message
\* itself and so raises pydantic's ValidationError.
FallbackHooks == {"_fallback", "fallback_raises", "fallback_validates"}

\* WSRouter(dependencies=[Depends(headerauth)])
dependencies == << "headerauth" >>

\* The state after WSRouter(...), whatever dispatcher and as_text were given.
Constructed ==
    /\ mapping = <<>>
    /\ routes = << MainRoute >>
    /\ adapter = <<>>
    /\ on_connect_hook = "_on_connect"
    /\ fallback_hook = "_fallback"
    /\ regs = <<>>
    /\ response = NoResponse
    /\ pc = [c \in Conns |-> "idle"]
    /\ app_state = [c \in Conns |-> "CONNECTING"]
    /\ scope = [c \in Conns |-> [subprotocols |-> {}, x_token |-> "dont_fail"]]
    /\ inbox = [c \in Conns |-> <<>>]
    /\ message = [c \in Conns |-> <<>>]
    /\ calls = [c \in Conns |-> <<>>]
    /\ sent = [c \in Conns |-> <<>>]
    /\ client = [c \in Conns |-> Peer("none", 0, "")]

\* WSRouter(): the default dispatcher, text mode.
Init ==
    /\ dispatcher = "_dispatcher"
    /\ as_text = TRUE
    /\ Constructed

\* WSRouter(dispatcher=..., as_text=...)
InitOptions ==
    /\ dispatcher \in {"_dispatcher", "dispatcher"}
    /\ as_text \in BOOLEAN
    /\ Constructed

(***************************************************************************)
(* Registration (WSRouter.receive, WSRouter.on_connect)                    *)
(***************************************************************************)
\* The registrations applications make: <<model, func, path>>, path Optional.
Registrations ==
    { <<"UserMessage", "get_user_message", <<>>>>,
      <<"PostMessage", "get_post_message", << "/post" >>>>,
      <<"UserMessage", "get_post_message", <<>>>> }

\* (The path always derived from the handler's name.)
RoutePath_from_name(func, path) == << " (", func, ")" >>

\* path if path is not None else f" ({func.__name__})"
RoutePath(func, path) == IF path # <<>> THEN path ELSE << " (", func, ")" >>

receive(model, func, path) ==
    /\ Len(routes) < 1 + MaxRegs
    /\ mapping' = SetItem(mapping, model, func)
    /\ routes' = Append(routes, [cls |-> "WSRoute", path |-> RoutePath(func, path),
                                 endpoint |-> func,
                                 methods |-> {"POST"}, include_in_schema |-> TRUE])
    /\ regs' = Append(regs, <<model, func, path>>)
    /\ UNCHANGED <<adapter, on_connect_hook, fallback_hook, dispatcher, as_text, response, connVars>>

\* Hooks are bound while no connection is being served.
on_connect(func) ==
    /\ func # on_connect_hook
    /\ \A c \in Conns : pc[c] = "idle"
    /\ on_connect_hook' = func
    /\ UNCHANGED <<mapping, routes, adapter, fallback_hook, dispatcher, as_text, regs, response,
                   connVars>>

\* def fallback(self, func): self._fallback = func
fallback(func) ==
    /\ func # fallback_hook
    /\ \A c \in Conns : pc[c] = "idle"
    /\ fallback_hook' = func
    /\ UNCHANGED <<mapping, routes, adapter, on_connect_hook, dispatcher, as_text, regs, response,
                   connVars>>

(***************************************************************************)
(* The peer                                                                *)
(***************************************************************************)
\* A peer opens a connection: the host router matches the main route and
\* WSMainRoute.handle creates the session.  Sessions are served one at a time.
Connect(c, sc) ==
    /\ \A d \in Conns : pc[d] = "idle"
    /\ pc' = [pc EXCEPT ![c] = "deps"]
    /\ scope' = [scope EXCEPT ![c] = sc]
    /\ client' = [client EXCEPT ![c] = Peer("connecting", 0, "")]
    /\ UNCHANGED <<routerVars, app_state, inbox, message, calls, sent>>

\* The peer sends one text frame on a connection it sees open.
ClientSend(c, raw) ==
    /\ client[c].st = "open"
    /\ Len(sent[c]) < MaxMsgs
    /\ inbox' = [inbox EXCEPT ![c] = Append(@, TextFrame(raw))]
    /\ sent' = [sent EXCEPT ![c] = Append(@, TextFrame(raw))]
    /\ UNCHANGED <<routerVars, pc, app_state, scope, message, calls, client>>

\* The peer sends one binary frame on a connection it sees open.
ClientSendBytes(c, raw) ==
    /\ client[c].st = "open"
    /\ Len(sent[c]) < MaxMsgs
    /\ inbox' = [inbox EXCEPT ![c] = Append(@, BytesFrame(raw))]
    /\ sent' = [sent EXCEPT ![c] = Append(@, BytesFrame(raw))]
    /\ UNCHANGED <<routerVars, pc, app_state, scope, message, calls, client>>

\* The peer closes a connection it sees open.
ClientClose(c, code, reason) ==
    /\ client[c].st = "open"
    /\ inbox' = [inbox EXCEPT ![c] = Append(@, CloseFrame(code, reason))]
    /\ sent' = [sent EXCEPT ![c] = Append(@, CloseFrame(code, reason))]
    /\ client' = [client EXCEPT ![c] = Peer("closed", code, reason)]
    /\ UNCHANGED <<routerVars, pc, app_state, scope, message, calls>>

\* What the peer observes when the serving task ends: a disconnect, unless it
\* closed the connection itself or has already observed one.
ServerGone(p) == IF p.st \in {"closed", "disconnect"} THEN p ELSE Peer("disconnect", 1000, "")

(***************************************************************************)
(* WSMainRoute.handle: dependencies, then the endpoint                     *)
(***************************************************************************)
\* The dependency of tests/test_ws.py: <<>> when it passes, <<code, reason>>
\* when it raises WebSocketDisconnect(code, reason).
headerauth(sc) == IF sc.x_token = "fail" THEN << 123, "Fail header" >> ELSE <<>>

\* (solve_dependencies with the outcome of the dependencies dropped.)
solve_dependencies_skipped(deps, sc) == <<>>

\* The first failure among the router's dependencies, <<>> when all pass.
solve_dependencies(deps, sc) ==
    IF \E i \in 1..Len(deps) : deps[i] = "headerauth" /\ headerauth(sc) # <<>>
    THEN headerauth(sc)
    ELSE <<>>

handle(c) ==
    /\ pc[c] = "deps"
    /\ LET failed == solve_dependencies(dependencies, scope[c])
       IN  IF failed # <<>>
           THEN /\ pc' = [pc EXCEPT ![c] = "raised"]
                /\ client' = [client EXCEPT ![c] = Peer("disconnect", failed[1], failed[2])]
           ELSE /\ pc' = [pc EXCEPT ![c] = "handler"]
                /\ UNCHANGED client
    /\ UNCHANGED <<routerVars, app_state, scope, inbox, message, calls, sent>>

(***************************************************************************)
(* WSRouter.handler                                                        *)
(***************************************************************************)
\* (_build_adapter without the empty-mapping guard.)
_build_adapter_unguarded(m) == << Keys(m) >>

\* _build_adapter: None for an empty mapping, else an adapter over its keys.
_build_adapter(m) == IF Len(m) = 0 THEN <<>> ELSE << Keys(m) >>

\* (The first build kept even when it yielded nothing to validate against.)
adapter_or_build_sticky(a, m) == IF a = <<>> THEN << Keys(m) >> ELSE a

\* (The build left to later: the adapter stays as it is.)
adapter_or_build_deferred(a, m) == a

\* (The adapter rebuilt at the start of every connection.)
adapter_or_build_always(a, m) == _build_adapter(m)

\* self._adapter if it is not None, else self._build_adapter()
adapter_or_build(a, m) == IF a = <<>> THEN _build_adapter(m) ELSE a

\* if not self._adapter: self._adapter = self._build_adapter()
handler_build(c) ==
    /\ pc[c] = "handler"
    /\ adapter' = adapter_or_build(adapter, mapping)
    /\ pc' = [pc EXCEPT ![c] = "on_connect"]
    /\ UNCHANGED <<mapping, routes, on_connect_hook, fallback_hook, dispatcher, as_text, regs, response,
                   app_state, scope, inbox, message, calls, sent, client>>

\* What the bound on-connect hook does with the connection:
\* "accept", "close", "nothing" or "raise".
OnConnectEffect(hook, sc) ==
    CASE hook = "_on_connect" -> "accept"
      [] hook = "reject_fail" -> IF "Fail" \in sc.subprotocols THEN "close" ELSE "accept"
      [] hook = "forgot"      -> "nothing"
      [] hook = "raises"      -> "raise"

\* (The connection accepted by the handler whatever the hook did.)
handler_on_connect_accepting(c) ==
    /\ pc[c] = "on_connect"
    /\ LET eff == OnConnectEffect(on_connect_hook, scope[c])
       IN  /\ calls' = [calls EXCEPT ![c] = Append(@, OnConnectCall(c, eff))]
           /\ app_state' = [app_state EXCEPT ![c] = "CONNECTED"]
           /\ client' = [client EXCEPT ![c] = Peer("open", 0, "")]
           /\ pc' = [pc EXCEPT ![c] = IF eff = "raise" THEN "raised" ELSE "receive"]
    /\ UNCHANGED <<routerVars, scope, inbox, message, sent>>

\* await self._on_connect(websocket)
handler_on_connect(c) ==
    /\ pc[c] = "on_connect"
    /\ LET eff == OnConnectEffect(on_connect_hook, scope[c])
       IN  /\ calls' = [calls EXCEPT ![c] = Append(@, OnConnectCall(c, eff))]
           /\ app_state' = [app_state EXCEPT ![c] =
                  CASE eff = "accept" -> "CONNECTED"
                    [] eff = "close"  -> "DISCONNECTED"
                    [] OTHER          -> @]
           /\ client' = [client EXCEPT ![c] =
                  CASE eff = "accept" -> Peer("open", 0, "")
                    [] eff = "close"  -> Peer("disconnect", 1000, "")
                    [] eff = "raise"  -> ServerGone(@)
                    [] OTHER          -> @]
           /\ pc' = [pc EXCEPT ![c] = IF eff = "raise" THEN "raised" ELSE "receive"]
    /\ UNCHANGED <<routerVars, scope, inbox, message, sent>>

\* (receive_text handing over the newest frame instead of the oldest.)
receive_text_newest(st, box) ==
    IF st # "CONNECTED" THEN [kind |-> "RuntimeError", frame |-> <<>>]
    ELSE IF box = <<>> THEN [kind |-> "wait", frame |-> <<>>]
    ELSE IF box[Len(box)].type = "disconnect"
         THEN [kind |-> "WebSocketDisconnect", frame |-> << box[Len(box)] >>]
         ELSE [kind |-> "text", frame |-> << box[Len(box)] >>]

\* websocket.receive_text(): raises RuntimeError unless the application side
\* is CONNECTED; else waits for the next frame, and raises
\* WebSocketDisconnect on a close frame or returns message["text"], which
\* raises KeyError on a frame that carries no text.
receive_text(st, box) ==
    IF st # "CONNECTED" THEN [kind |-> "RuntimeError", frame |-> <<>>]
    ELSE IF box = <<>> THEN [kind |-> "wait", frame |-> <<>>]
    ELSE IF Head(box).type = "disconnect"
         THEN [kind |-> "WebSocketDisconnect", frame |-> << Head(box) >>]
    ELSE IF Head(box).text = <<>>
         THEN [kind |-> "KeyError", frame |-> << Head(box) >>]
         ELSE [kind |-> "text", frame |-> << Head(box) >>]

\* websocket.receive_bytes(): the same, returning message["bytes"].
receive_bytes(st, box) ==
    IF st # "CONNECTED" THEN [kind |-> "RuntimeError", frame |-> <<>>]
    ELSE IF box = <<>> THEN [kind |-> "wait", frame |-> <<>>]
    ELSE IF Head(box).type = "disconnect"
         THEN [kind |-> "WebSocketDisconnect", frame |-> << Head(box) >>]
    ELSE IF Head(box).bytes = <<>>
         THEN [kind |-> "KeyError", frame |-> << Head(box) >>]
         ELSE [kind |-> "bytes", frame |-> << Head(box) >>]

\* except RuntimeError as err:
\*     await self._fallback(websocket, None, err); return
except_RuntimeError_as_disconnect(c) ==
    /\ calls' = [calls EXCEPT ![c] = Append(@, OnDisconnectCall(c, 1000, ""))]
    /\ pc' = [pc EXCEPT ![c] = "returned"]
    /\ client' = [client EXCEPT ![c] = ServerGone(@)]

except_RuntimeError_reraise(c) ==
    /\ calls' = [calls EXCEPT ![c] = Append(@, FallbackCall(c, <<>>, <<NotConnected>>))]
    /\ pc' = [pc EXCEPT ![c] = "raised"]
    /\ client' = [client EXCEPT ![c] = ServerGone(@)]

except_RuntimeError(c) ==
    /\ calls' = [calls EXCEPT ![c] =
           Append(@, await_fallback(fallback_hook, c, <<>>, <<NotConnected>>))]
    /\ pc' = [pc EXCEPT ![c] =
           IF FallbackEffect(fallback_hook) = "return" THEN "returned" ELSE "raised"]
    /\ client' = [client EXCEPT ![c] = ServerGone(@)]

\* except WebSocketDisconnect as err:
\*     await self._on_disconnect(websocket, err.code, err.reason); return
except_WebSocketDisconnect(c, frame) ==
    /\ calls' = [calls EXCEPT ![c] = Append(@, OnDisconnectCall(c, frame.code, frame.reason))]
    /\ pc' = [pc EXCEPT ![c] = "returned"]

\* message = await websocket.receive_text() or receive_bytes(), with the two
\* except clauses; any other exception leaves the handler.
handler_receive(c) ==
    /\ pc[c] = "receive"
    /\ LET got == IF as_text THEN receive_text(app_state[c], inbox[c])
                  ELSE receive_bytes(app_state[c], inbox[c])
       IN  /\ got.kind # "wait"
           /\ CASE got.kind = "RuntimeError" ->
                    /\ except_RuntimeError(c)
                    /\ UNCHANGED <<inbox, message, app_state>>
                [] got.kind = "WebSocketDisconnect" ->
                    /\ except_WebSocketDisconnect(c, got.frame[1])
                    /\ inbox' = [inbox EXCEPT ![c] = Tail(@)]
                    /\ app_state' = [app_state EXCEPT ![c] = "DISCONNECTED"]
                    /\ UNCHANGED <<message, client>>
                [] got.kind = "KeyError" ->
                    /\ inbox' = [inbox EXCEPT ![c] = Tail(@)]
                    /\ pc' = [pc EXCEPT ![c] = "raised"]
                    /\ client' = [client EXCEPT ![c] = ServerGone(@)]
                    /\ UNCHANGED <<message, calls, app_state>>
                [] got.kind \in {"text", "bytes"} ->
                    /\ message' = [message EXCEPT ![c] =
                           IF got.kind = "text" THEN got.frame[1].text
                           ELSE got.frame[1].bytes]
                    /\ inbox' = [inbox EXCEPT ![c] = Tail(@)]
                    /\ pc' = [pc EXCEPT ![c] = "dispatch"]
                    /\ UNCHANGED <<calls, app_state, client>>
    /\ UNCHANGED <<routerVars, scope, sent>>

(***************************************************************************)
(* WSRouter._dispatcher                                                    *)
(***************************************************************************)
\* (_dispatcher taking the handler by position instead of by class.)
_dispatcher_positional(ws, m, raw) ==
    IF adapter = <<>>
    THEN [call |-> << FallbackCall(ws, <<raw>>, <<>>) >>, raised |-> FALSE]
    ELSE LET validated == validate_json(adapter[1], raw)
         IN  IF validated = <<>>
             THEN [call |-> << FallbackCall(ws, <<raw>>, <<ValidationError>>) >>,
                   raised |-> FALSE]
             ELSE [call |-> << HandlerCall(m[1][2], ws, validated[1]) >>,
                   raised |-> FALSE]

\* (_dispatcher invoking with one connection object shared by all sessions.)
_dispatcher_shared_ws(ws, m, raw) ==
    IF adapter = <<>>
    THEN [call |-> << FallbackCall("ws1", <<raw>>, <<>>) >>, raised |-> FALSE]
    ELSE LET validated == validate_json(adapter[1], raw)
         IN  IF validated = <<>>
             THEN [call |-> << FallbackCall("ws1", <<raw>>, <<ValidationError>>) >>,
                   raised |-> FALSE]
             ELSE LET func == Lookup(m, validated[1].cls)
                  IN  IF func = <<>>
                      THEN [call |-> <<>>, raised |-> TRUE]
                      ELSE [call |-> << HandlerCall(func[1], "ws1", validated[1]) >>,
                            raised |-> FALSE]

\* (_dispatcher with the lookup inside the try, its KeyError handed to the
\* fallback.)
_dispatcher_lookup_guarded(ws, m, raw) ==
    IF adapter = <<>>
    THEN [call |-> << FallbackCall(ws, <<raw>>, <<>>) >>, raised |-> FALSE]
    ELSE LET validated == validate_json(adapter[1], raw)
         IN  IF validated = <<>>
             THEN [call |-> << FallbackCall(ws, <<raw>>, <<ValidationError>>) >>,
                   raised |-> FALSE]
             ELSE LET func == Lookup(m, validated[1].cls)
                  IN  IF func = <<>>
                      THEN [call |-> << FallbackCall(ws, <<raw>>, <<"KeyError">>) >>,
                            raised |-> FALSE]
                      ELSE [call |-> << HandlerCall(func[1], ws, validated[1]) >>,
                            raised |-> FALSE]

\* The invocation the default dispatcher makes for a raw message, and whether
\* it raises instead: [call |-> Optional call, raised |-> BOOLEAN].
_dispatcher(ws, m, raw) ==
    IF adapter = <<>>
    THEN \* line 214 is inside the try: a ValidationError of the hook is caught
         \* by the except clause, which awaits the hook again, outside any try.
         IF FallbackEffect(fallback_hook) = "raise_ValidationError"
         THEN [call |-> << await_fallback(fallback_hook, ws, <<raw>>, <<>>),
                           await_fallback(fallback_hook, ws, <<raw>>, <<ValidationError>>) >>,
               raised |-> TRUE]
         ELSE [call |-> << await_fallback(fallback_hook, ws, <<raw>>, <<>>) >>,
               raised |-> FallbackEffect(fallback_hook) # "return"]
    ELSE LET validated == validate_json(adapter[1], raw)
         IN  IF validated = <<>>
             THEN [call |-> << await_fallback(fallback_hook, ws, <<raw>>, <<ValidationError>>) >>,
                   raised |-> FallbackEffect(fallback_hook) # "return"]
             ELSE LET func == Lookup(m, validated[1].cls)
                  IN  IF func = <<>>
                      THEN [call |-> <<>>, raised |-> TRUE]
                      ELSE [call |-> << HandlerCall(func[1], ws, validated[1]) >>,
                            raised |-> FALSE]

\* A dispatcher given at construction: application code, which here takes
\* its three arguments and returns.
custom_dispatcher(ws, m, raw) ==
    [call |-> << DispatcherCall(ws, m, raw) >>, raised |-> FALSE]

\* What a bound handler does when it is awaited.
HandlerOutcomes == {"return", "raise"}

\* (The handler awaited inside the try: its ValidationError handed to the
\* fallback hook.)
await_handler_guarded(out, did) ==
    IF out.call # <<>> /\ out.call[1].fn \in Funcs /\ did # "return"
    THEN IF did = "raise_ValidationError"
         THEN [call |-> << [out.call[1] EXCEPT !.did = did],
                           FallbackCall(out.call[1].ws, <<>>, <<ValidationError>>) >>,
               raised |-> FALSE]
         ELSE [call |-> << [out.call[1] EXCEPT !.did = did] >>, raised |-> TRUE]
    ELSE out

\* await handler(websocket, validated): outside the try of _dispatcher, so
\* what the handler raises leaves the dispatcher.
await_handler(out, did) ==
    IF out.call # <<>> /\ out.call[1].fn \in Funcs /\ did # "return"
    THEN [call |-> << [out.call[1] EXCEPT !.did = did] >>, raised |-> TRUE]
    ELSE out

\* (self.dispatcher = self._dispatcher, whatever dispatcher was given.)
self_dispatcher_default_only(ws, m, raw, did) ==
    await_handler(_dispatcher(ws, m, raw), did)

\* self.dispatcher = dispatcher or self._dispatcher
self_dispatcher(ws, m, raw, did) ==
    IF dispatcher = "_dispatcher"
    THEN await_handler(_dispatcher(ws, m, raw), did)
    ELSE custom_dispatcher(ws, m, raw)

\* Where the serving task goes once the dispatcher has returned.
AfterDispatch == "returned"

\* await self.dispatcher(websocket, self.mapping, message)
dispatch(c, did) ==
    /\ pc[c] = "dispatch"
    /\ LET out == self_dispatcher(c, mapping, message[c][1], did)
       IN  /\ calls' = [calls EXCEPT ![c] = @ \o out.call]
           /\ pc' = [pc EXCEPT ![c] = IF out.raised THEN "raised" ELSE AfterDispatch]
           /\ client' = [client EXCEPT ![c] =
                  IF out.raised \/ AfterDispatch = "returned" THEN ServerGone(@) ELSE @]
    /\ message' = [message EXCEPT ![c] = <<>>]
    /\ UNCHANGED <<routerVars, app_state, scope, inbox, sent>>

handler_dispatch(c) == \E did \in HandlerOutcomes : dispatch(c, did)

\* The session is over and its connection object is dropped.
Forget(c) ==
    /\ pc[c] \in {"returned", "raised"}
    /\ pc' = [pc EXCEPT ![c] = "idle"]
    /\ app_state' = [app_state EXCEPT ![c] = "CONNECTING"]
    /\ scope' = [scope EXCEPT ![c] = [subprotocols |-> {}, x_token |-> "dont_fail"]]
    /\ inbox' = [inbox EXCEPT ![c] = <<>>]
    /\ message' = [message EXCEPT ![c] = <<>>]
    /\ calls' = [calls EXCEPT ![c] = <<>>]
    /\ sent' = [sent EXCEPT ![c] = <<>>]
    /\ client' = [client EXCEPT ![c] = Peer("none", 0, "")]
    /\ UNCHANGED routerVars

Next ==
    \/ \E r \in Registrations : receive(r[1], r[2], r[3])
    \/ \E h \in OnConnectHooks : on_connect(h)
    \/ \E c \in Conns, sc \in Scopes : Connect(c, sc)
    \/ \E c \in Conns, raw \in Msgs : ClientSend(c, raw)
    \/ \E c \in Conns, cl \in Closes : ClientClose(c, cl[1], cl[2])
    \/ \E c \in Conns : handle(c)
    \/ \E c \in Conns : handler_build(c)
    \/ \E c \in Conns : handler_on_connect(c)
    \/ \E c \in Conns : handler_receive(c)
    \/ \E c \in Conns : handler_dispatch(c)
    \/ \E c \in Conns : Forget(c)

Spec == Init /\ [][Next]_vars

(***************************************************************************)
(* Routers constructed with options, and peers that send both kinds of     *)
(* frame                                                                   *)
(***************************************************************************)
\* The payloads the peers of these routers send as text frames and as
\* binary frames.
OptionMsgs == {MsgUser, MsgInvalid}

BinaryMsgs == {MsgUser}

\* (The on-connect hook of these routers stays the default one.)
NextOptions ==
    \/ \E r \in Registrations : receive(r[1], r[2], r[3])
    \/ \E c \in Conns, sc \in Scopes : Connect(c, sc)
    \/ \E c \in Conns, raw \in OptionMsgs : ClientSend(c, raw)
    \/ \E c \in Conns, raw \in BinaryMsgs : ClientSendBytes(c, raw)
    \/ \E c \in Conns, cl \in Closes : ClientClose(c, cl[1], cl[2])
    \/ \E c \in Conns : handle(c)
    \/ \E c \in Conns : handler_build(c)
    \/ \E c \in Conns : handler_on_connect(c)
    \/ \E c \in Conns : handler_receive(c)
    \/ \E c \in Conns : handler_dispatch(c)
    \/ \E c \in Conns : Forget(c)

SpecOptions == InitOptions /\ [][NextOptions]_vars

(***************************************************************************)
(* Routers with one schema, which has no tag field                         *)
(***************************************************************************)
\* Message, which declares no field, registered and registered again.
SingleRegistrations ==
    { <<"Message", "handler", <<>>>>,
      <<"Message", "get_user_message", << "/message" >>>> }

SingleMsgs == {MsgUser, MsgNoTag, MsgEmpty}

NextSingle ==
    \/ \E r \in SingleRegistrations : receive(r[1], r[2], r[3])
    \/ \E c \in Conns, sc \in Scopes : Connect(c, sc)
    \/ \E c \in Conns, raw \in SingleMsgs : ClientSend(c, raw)
    \/ \E c \in Conns, cl \in Closes : ClientClose(c, cl[1], cl[2])
    \/ \E c \in Conns : handle(c)
    \/ \E c \in Conns : handler_build(c)
    \/ \E c \in Conns : handler_on_connect(c)
    \/ \E c \in Conns : handler_receive(c)
    \/ \E c \in Conns : handler_dispatch(c)
    \/ \E c \in Conns : Forget(c)

SpecSingle == Init /\ [][NextSingle]_vars

(***************************************************************************)
(* Applications that take a binding out of the mapping                     *)
(***************************************************************************)
\* del router.mapping[model]: the mapping is a public attribute, and no
\* method of the router removes a key.
unbind(model) ==
    /\ model \in KeySet(mapping)
    /\ mapping' = SelectSeq(mapping, LAMBDA b : b[1] # model)
    /\ UNCHANGED <<routes, adapter, on_connect_hook, fallback_hook, dispatcher, as_text, regs, response,
                   connVars>>

UnboundMsgs == {MsgUser, MsgPost}

NextUnbound ==
    \/ \E r \in Registrations : receive(r[1], r[2], r[3])
    \/ \E M \in Models : unbind(M)
    \/ \E c \in Conns, sc \in Scopes : Connect(c, sc)
    \/ \E c \in Conns, raw \in UnboundMsgs : ClientSend(c, raw)
    \/ \E c \in Conns, cl \in Closes : ClientClose(c, cl[1], cl[2])
    \/ \E c \in Conns : handle(c)
    \/ \E c \in Conns : handler_build(c)
    \/ \E c \in Conns : handler_on_connect(c)
    \/ \E c \in Conns : handler_receive(c)
    \/ \E c \in Conns : handler_dispatch(c)
    \/ \E c \in Conns : Forget(c)

SpecUnbound == Init /\ [][NextUnbound]_vars

(***************************************************************************)
(* Connections served concurrently                                         *)
(***************************************************************************)
\* A peer opens a connection while others are being served: each connection
\* gets its own WebSocket object and its own serving task.
ConnectConcurrently(c, sc) ==
    /\ pc[c] = "idle"
    /\ pc' = [pc EXCEPT ![c] = "deps"]
    /\ scope' = [scope EXCEPT ![c] = sc]
    /\ client' = [client EXCEPT ![c] = Peer("connecting", 0, "")]
    /\ UNCHANGED <<routerVars, app_state, inbox, message, calls, sent>>

\* A registration made while no serving task is running: the mapping is
\* fixed as long as a connection is being served.
receive_between(model, func, path) ==
    /\ \A c \in Conns : pc[c] \in {"idle", "returned", "raised"}
    /\ receive(model, func, path)

\* The peers of concurrently served connections send few frames.
ConcurrentSend(c, raw) ==
    /\ Len(sent[c]) < MaxConcurrentMsgs
    /\ ClientSend(c, raw)

ConcurrentSendBytes(c, raw) ==
    /\ Len(sent[c]) < MaxConcurrentMsgs
    /\ ClientSendBytes(c, raw)

ConcurrentRegistrations ==
    { <<"UserMessage", "get_user_message", <<>>>>,
      <<"PostMessage", "get_post_message", << "/post" >>>> }

ConcurrentMsgs == {MsgUser, MsgPost}

ConcurrentScopes == { [subprotocols |-> {}, x_token |-> "dont_fail"] }

ConcurrentCloses == { <<1000, "">> }

NextConcurrent ==
    \/ \E r \in ConcurrentRegistrations : receive_between(r[1], r[2], r[3])
    \/ \E c \in Conns, sc \in ConcurrentScopes : ConnectConcurrently(c, sc)
    \/ \E c \in Conns, raw \in ConcurrentMsgs : ConcurrentSend(c, raw)
    \/ \E c \in Conns, raw \in BinaryMsgs : ConcurrentSendBytes(c, raw)
    \/ \E c \in Conns, cl \in ConcurrentCloses : ClientClose(c, cl[1], cl[2])
    \/ \E c \in Conns : handle(c)
    \/ \E c \in Conns : handler_build(c)
    \/ \E c \in Conns : handler_on_connect(c)
    \/ \E c \in Conns : handler_receive(c)
    \/ \E c \in Conns : handler_dispatch(c)
    \/ \E c \in Conns : Forget(c)

SpecConcurrent == Init /\ [][NextConcurrent]_vars

(***************************************************************************)
(* Applications whose handlers and fallback hook fail                      *)
(***************************************************************************)
\* What a bound handler does here: it returns, raises, or raises pydantic's
\* ValidationError (a handler that validates something itself).
FaultyOutcomes == {"return", "raise", "raise_ValidationError"}

handler_dispatch_faulty(c) == \E did \in FaultyOutcomes : dispatch(c, did)

FaultRegistrations == { << "UserMessage", "get_user_message", <<>> >> }

FaultMsgs == {MsgUser, MsgInvalid}

NextFaults ==
    \/ \E r \in FaultRegistrations : receive_between(r[1], r[2], r[3])
    \/ \E h \in FallbackHooks : fallback(h)
    \/ \E c \in Conns, sc \in ConcurrentScopes : Connect(c, sc)
    \/ \E c \in Conns, raw \in FaultMsgs : ClientSend(c, raw)
    \/ \E c \in Conns : handle(c)
    \/ \E c \in Conns : handler_build(c)
    \/ \E c \in Conns : handler_on_connect(c)
    \/ \E c \in Conns : handler_receive(c)
    \/ \E c \in Conns : handler_dispatch_faulty(c)
    \/ \E c \in Conns : Forget(c)

SpecFaults == Init /\ [][NextFaults]_vars

(***************************************************************************)
(* Route matching: the host application routes requests over the routes    *)
(* of the router, included under a prefix                                  *)
(***************************************************************************)
\* app.include_router(router, prefix="/ws")
Prefix == << "/ws" >>

\* The scopes the host application is asked to route: plain HTTP POST
\* requests and websocket handshakes, on the paths of the routes and on
\* another one.
RequestScopes ==
    { [type |-> t, method |-> IF t = "http" THEN "POST" ELSE "", path |-> p] :
        t \in {"http", "websocket"},
        p \in { Prefix,
                Prefix \o << " (", "get_user_message", ")" >>,
                Prefix \o << "/post" >>,
                << "/ws2", " (", "get_user_message", ")" >> } }

\* APIRoute.matches, which both route classes override: an HTTP request on
\* the route's path with one of its methods.
APIRoute_matches(route, sc) ==
    IF sc.type = "http" /\ sc.path = Prefix \o route.path /\ sc.method \in route.methods
    THEN "FULL" ELSE "NONE"

\* (WSMainRoute without its override of matches.)
WSMainRoute_matches_inherited(route, sc) == APIRoute_matches(route, sc)

\* WSMainRoute.matches: WebSocketRoute.matches, a websocket scope on the path.
WSMainRoute_matches(route, sc) ==
    IF sc.type = "websocket" /\ sc.path = Prefix \o route.path THEN "FULL" ELSE "NONE"

\* (WSRoute without its override of matches.)
WSRoute_matches_inherited(route, sc) == APIRoute_matches(route, sc)

\* WSRoute.matches: return Match.NONE, {}
WSRoute_matches(route, sc) == "NONE"

matches(route, sc) ==
    IF route.cls = "WSMainRoute" THEN WSMainRoute_matches(route, sc)
    ELSE WSRoute_matches(route, sc)

\* The host router takes the first route that matches in full, and answers
\* "not found" when there is none: route is the index of the route taken
\* (0 for none) and examined the number of routes it asked.
Request(sc) ==
    /\ \A c \in Conns : pc[c] = "idle"
    /\ LET full == { i \in 1..Len(routes) : matches(routes[i], sc) = "FULL" }
           first == IF full = {} THEN 0 ELSE CHOOSE i \in full : \A k \in full : i <= k
       IN  response' = [type |-> sc.type, path |-> sc.path,
                        examined |-> IF first = 0 THEN Len(routes) ELSE first,
                        route |-> first,
                        status |-> IF first = 0 THEN 404 ELSE 101]
    /\ UNCHANGED <<mapping, routes, adapter, on_connect_hook, fallback_hook, dispatcher, as_text, regs,
                   connVars>>

\* The routes the generated documentation lists as operations: the API
\* routes that are included in the schema, one operation per method.
Documented(rs) ==
    { [path |-> Prefix \o rs[i].path, method |-> mth, name |-> rs[i].endpoint] :
        i \in { k \in 1..Len(rs) : rs[k].include_in_schema }, mth \in {"POST"} }

NextRoutes ==
    \/ \E r \in Registrations : receive(r[1], r[2], r[3])
    \/ \E sc \in RequestScopes : Request(sc)

SpecRoutes == Init /\ [][NextRoutes]_vars

(***************************************************************************)
(* Properties                                                              *)
(***************************************************************************)
\* The discriminator value a raw message carries, <<>> when it carries none.
Tag(raw) ==
    IF raw.json /\ \E j \in 1..Len(raw.kv) : raw.kv[j][1] = "message_type"
    THEN << Member(raw, "message_type") >>
    ELSE <<>>

\* The adapter was compiled from exactly the schemas now registered.
Compiled ==
    /\ adapter # <<>>
    /\ { adapter[1][i] : i \in 1..Len(adapter[1]) } = KeySet(mapping)

DistinctTags ==
    \A m1, m2 \in KeySet(mapping) : m1 # m2 => TagOf(m1) # TagOf(m2)

\* The serving task of c runs the dispatcher in this step.
Dispatched(c) == pc[c] = "dispatch" /\ pc'[c] # "dispatch"

\* The invocations of registered handlers recorded for c.
HandlerCalls(c) == { i \in 1..Len(calls[c]) : calls[c][i].fn \in Funcs }

FallbackCalls(c) == { i \in 1..Len(calls[c]) : calls[c][i].fn = "_fallback" }

DisconnectCalls(c) == { i \in 1..Len(calls[c]) : calls[c][i].fn = "_on_disconnect" }

\* C1: with the default dispatcher and registered schemas with pairwise
\* distinct tags, dispatching a well-formed message carrying the tag of the
\* registered schema M on an accepted connection adds exactly one
\* invocation: the handler bound to M, with that connection and the value
\* validated from the message; no other handler, no fallback, and no fault
\* unless that handler itself fails.
C1_TagRoutesToBoundHandler ==
    [][\A c \in Conns : \A M \in KeySet(mapping) :
          ( /\ Dispatched(c)
            /\ app_state[c] = "CONNECTED"
            /\ Compiled /\ DistinctTags
            /\ Tag(message[c][1]) = << TagOf(M) >>
            /\ ValidatesAs(M, message[c][1]) )
          => /\ Len(calls'[c]) = Len(calls[c]) + 1
             /\ SubSeq(calls'[c], 1, Len(calls[c])) = calls[c]
             /\ LET call == calls'[c][Len(calls'[c])]
                IN  /\ pc'[c] = "raised" <=> call.did = "raise"
                    /\ call.fn = Lookup(mapping, M)[1]
                    /\ call.ws = c
                    /\ call.msg = <<>> /\ call.err = <<>>
                    /\ Len(call.val) = 1
                    /\ call.val[1].cls = M
                    /\ \A i \in 1..Len(FieldsOf(M)) :
                          call.val[1].data[i] = Member(message[c][1], FieldsOf(M)[i].name)
      ]_vars

\* C1 witness: with both schemas registered and compiled, a "post" message
\* was delivered to the handler bound to PostMessage.
C1_Witness ==
    \E c \in Conns :
        /\ pc[c] = "returned" /\ app_state[c] = "CONNECTED"
        /\ Len(mapping) = 2 /\ Compiled
        /\ Len(calls[c]) = 2
        /\ calls[c][2].fn = Lookup(mapping, "PostMessage")[1]
        /\ calls[c][2].val # <<>>
        /\ calls[c][2].val[1].cls = "PostMessage"

\* The three ways a message fails validation against the compiled schemas:
\* not a JSON object, no discriminator, a discriminator of no compiled schema.
FailsValidation(raw, models) ==
    \/ ~raw.json
    \/ Tag(raw) = <<>>
    \/ \A i \in 1..Len(models) : << TagOf(models[i]) >> # Tag(raw)

\* C3: with at least one schema registered, dispatching a message that
\* fails validation adds exactly one invocation, the fallback hook with the
\* original raw message and the validation error; no handler is invoked.
C3_InvalidGoesToFallback ==
    [][\A c \in Conns :
          ( /\ Dispatched(c)
            /\ Len(mapping) >= 1 /\ adapter # <<>>
            /\ FailsValidation(message[c][1], adapter[1]) )
          => /\ pc'[c] # "raised"
             /\ calls'[c] = Append(calls[c],
                               FallbackCall(c, << message[c][1] >>, << ValidationError >>))
      ]_vars

\* C3 witness: the fallback hook received {"message_type": "invalid", ...}
\* and a validation error on a router with a registered schema.
C3_Witness ==
    \E c \in Conns :
        /\ Len(mapping) >= 1
        /\ Len(calls[c]) = 2
        /\ calls[c][2].fn = "_fallback"
        /\ calls[c][2].msg = << MsgInvalid >>
        /\ calls[c][2].err = << ValidationError >>
        /\ HandlerCalls(c) = {}

\* C5: with an empty mapping, dispatching any message (the empty string
\* included) adds exactly one invocation, the fallback hook with the raw
\* message and no error, and raises nothing.
C5_EmptyMappingGoesToFallback ==
    [][\A c \in Conns :
          (Dispatched(c) /\ mapping = <<>>)
          => /\ pc'[c] # "raised"
             /\ calls'[c] = Append(calls[c], FallbackCall(c, << message[c][1] >>, <<>>))
      ]_vars

\* C5 witness: the empty string reached the fallback hook, without an error,
\* on a router with no handler.
C5_Witness ==
    \E c \in Conns :
        /\ mapping = <<>>
        /\ Len(calls[c]) = 2
        /\ calls[c][2] = FallbackCall(c, << MsgEmpty >>, <<>>)

\* The text frames the peer has sent on c, by position in sent[c].
TextFrames(c) == { i \in 1..Len(sent[c]) : sent[c][i].type = "text" }

\* The raw message is well-formed for a registered schema and carries its tag.
ValidFor(raw, M) == Tag(raw) = << TagOf(M) >> /\ ValidatesAs(M, raw)

\* C2: once a session on a router with compiled, distinctly tagged schemas
\* has ended without a fault, k valid messages sent on its connection have
\* produced exactly k invocations of bound handlers (the serving task reads
\* again after each message).
C2_EveryMessageHandled ==
    \A c \in Conns :
        ( /\ pc[c] = "returned"
          /\ Compiled /\ DistinctTags
          /\ \A i \in TextFrames(c) :
                \E M \in KeySet(mapping) : ValidFor(sent[c][i].text[1], M) )
        => Cardinality(HandlerCalls(c)) = Cardinality(TextFrames(c))

\* C4: a validation failure does not end the session: once the session has
\* ended, a valid message sent right after an invalid one on the same
\* connection has been delivered to the handler bound to its schema.
C4_ValidAfterInvalidDelivered ==
    \A c \in Conns : \A M \in KeySet(mapping) : \A i \in TextFrames(c) :
        ( /\ pc[c] = "returned"
          /\ Compiled /\ DistinctTags
          /\ FailsValidation(sent[c][i].text[1], adapter[1])
          /\ i + 1 \in TextFrames(c)
          /\ ValidFor(sent[c][i + 1].text[1], M) )
        => \E k \in HandlerCalls(c) :
              /\ calls[c][k].ws = c
              /\ calls[c][k].val[1].cls = M
              /\ \A n \in 1..Len(FieldsOf(M)) :
                    calls[c][k].val[1].data[n] =
                        Member(sent[c][i + 1].text[1], FieldsOf(M)[n].name)

\* C6: when the peer has disconnected on an accepted session, before or
\* after any number of messages, and the session has ended, the
\* on-disconnect hook was invoked exactly once, with the peer's close code
\* and reason, and nothing was invoked after it.
C6_DisconnectHookOnce ==
    \A c \in Conns :
        (pc[c] = "returned" /\ client[c].st = "closed")
        => /\ Cardinality(DisconnectCalls(c)) = 1
           /\ calls[c][Len(calls[c])] =
                 OnDisconnectCall(c, client[c].code, client[c].reason)

\* The on-connect hook of the session on c did this with the connection.
OnConnectDid(c, did) == calls[c] # <<>> /\ calls[c][1].did = did

\* C7 as stated: after the on-connect hook closed the connection, no
\* registered handler and no fallback is ever invoked in the session, and
\* the client observes a disconnect.
C7_RejectedInvokesNothing ==
    \A c \in Conns :
        OnConnectDid(c, "close")
        => /\ HandlerCalls(c) = {}
           /\ FallbackCalls(c) = {}
           /\ client[c].st = "disconnect"

\* C7 amended: after the on-connect hook closed the connection, no
\* registered handler is invoked, no frame is read and no message is handed
\* to the fallback hook; the read fails as "not connected" and the fallback
\* hook is invoked exactly once, with an absent message and that fault; the
\* client observes a disconnect.
C7_RejectedReadsNoMessage ==
    \A c \in Conns :
        OnConnectDid(c, "close")
        => /\ HandlerCalls(c) = {} /\ DisconnectCalls(c) = {}
           /\ sent[c] = <<>> /\ message[c] = <<>>
           /\ client[c] = Peer("disconnect", 1000, "")
           /\ pc[c] \in {"receive", "returned"}
           /\ pc[c] = "receive" => Len(calls[c]) = 1
           /\ pc[c] = "returned" =>
                 /\ Len(calls[c]) = 2
                 /\ calls[c][2] = FallbackCall(c, <<>>, << NotConnected >>)

\* C7 witness: a session whose on-connect hook closed the connection is over.
C7_Witness ==
    \E c \in Conns : OnConnectDid(c, "close") /\ pc[c] = "returned"

\* C8: after the on-connect hook returned without accepting or closing,
\* the first read fails as "not connected"; the fallback hook is invoked
\* exactly once, with an absent message and that fault; no handler and no
\* dispatcher runs, the fault is not re-raised and the session ends.
C8_NeverAcceptedGoesToFallback ==
    \A c \in Conns :
        (OnConnectDid(c, "nothing") /\ pc[c] # "receive")
        => /\ pc[c] = "returned"
           /\ calls[c] = << OnConnectCall(c, "nothing"),
                            FallbackCall(c, <<>>, << NotConnected >>) >>
           /\ message[c] = <<>> /\ sent[c] = <<>>

\* C8 witness: a session whose on-connect hook did nothing is over.
C8_Witness ==
    \E c \in Conns :
        /\ OnConnectDid(c, "nothing") /\ pc[c] = "returned"
        /\ app_state[c] = "CONNECTING"
        /\ FallbackCalls(c) = {2}

\* C9: an error raised by the on-connect hook on a connection that was never
\* accepted does not leave the serving task: the fallback hook is invoked
\* with the error and the session ends closed.
C9_OnConnectErrorGoesToFallback ==
    \A c \in Conns :
        OnConnectDid(c, "raise")
        => /\ pc[c] # "raised"
           /\ pc[c] = "returned" => FallbackCalls(c) # {}

\* C10: a failing dependency stops the session before the core runs: no
\* hook, handler or fallback is invoked, the connection is never accepted,
\* nothing is read, and the client observes a disconnect with the
\* dependency's code and reason; with a passing dependency the first
\* invocation of the session is the on-connect hook.
C10_DependencyFailurePreventsSession ==
    \A c \in Conns :
        /\ (scope[c].x_token = "fail" /\ pc[c] # "deps")
           => /\ pc[c] = "raised"
              /\ calls[c] = <<>>
              /\ app_state[c] = "CONNECTING"
              /\ sent[c] = <<>> /\ message[c] = <<>>
              /\ client[c] = Peer("disconnect", 123, "Fail header")
        /\ (scope[c].x_token # "fail" /\ pc[c] \in {"receive", "dispatch", "returned", "raised"})
           => /\ calls[c] # <<>>
              /\ calls[c][1].fn = "_on_connect" /\ calls[c][1].ws = c

\* C10 witness: a connection with the failing header was turned away, and
\* (on the other connection id, in another session) one with a passing
\* header was accepted.
C10_Witness ==
    \E c \in Conns :
        /\ scope[c].x_token = "fail" /\ pc[c] = "raised"
        /\ client[c].code = 123

\* The payload of the last frame the serving task of c has taken.
LastRead(c) ==
    LET f == sent[c][Len(sent[c]) - Len(inbox[c])]
    IN  IF as_text THEN f.text ELSE f.bytes

\* C11: on a router constructed with a custom dispatcher, every message read
\* is handed exactly once to that dispatcher, with the connection, the
\* router's current mapping and the payload exactly as the peer sent it;
\* the router validates nothing and invokes neither a registered handler nor
\* the fallback hook for it.
C11_CustomDispatcherGetsRawMessage ==
    [][\A c \in Conns :
          (Dispatched(c) /\ dispatcher # "_dispatcher")
          => /\ pc'[c] # "raised"
             /\ calls'[c] = Append(calls[c], DispatcherCall(c, mapping, LastRead(c)[1]))
      ]_vars

\* C11 witness: the custom dispatcher received a message that fails
\* validation, together with a non-empty mapping, and nothing else ran.
C11_Witness ==
    \E c \in Conns :
        /\ dispatcher = "dispatcher"
        /\ Len(calls[c]) = 2
        /\ calls[c][2] = DispatcherCall(c, mapping, MsgInvalid)
        /\ mapping # <<>>
        /\ HandlerCalls(c) = {} /\ FallbackCalls(c) = {}
\* The documentation-only routes the host router asked for the last request.
AskedDocRoutes == { i \in 1..response.examined : routes[i].cls = "WSRoute" }

\* C12: no documentation-only route matches any request, of either kind and
\* on any path, its own included: the route taken is never one of them, an
\* HTTP request is answered "not found" whatever its path, and the
\* only route a request is ever routed to is the main one.
C12_DocRoutesNeverMatch ==
    response.type # "" =>
        /\ response.route \notin AskedDocRoutes
        /\ response.route # 0 => routes[response.route] = MainRoute
        /\ response.type = "http" => response.route = 0 /\ response.status = 404
        /\ \A i \in 1..Len(routes) : \A sc \in RequestScopes :
              routes[i].cls = "WSRoute" => matches(routes[i], sc) = "NONE"

\* C12 witness: an HTTP POST on the very path of a registered
\* documentation-only route was answered "not found" after that route had
\* been asked.
C12_Witness ==
    /\ response.type = "http" /\ response.status = 404
    /\ \E i \in AskedDocRoutes : response.path = Prefix \o routes[i].path

\* C13: the main entry route is taken only for a websocket scope on its own
\* path, and every such scope takes it; no HTTP request takes it; and it is
\* listed in the documentation as a POST operation like any API route.
C13_MainRouteWebsocketOnly ==
    /\ routes[1] = MainRoute
    /\ response.type # "" =>
          (response.route = 1 <=> (response.type = "websocket" /\ response.path = Prefix))
    /\ \A sc \in RequestScopes : sc.type = "http" => matches(routes[1], sc) = "NONE"
    /\ [path |-> Prefix, method |-> "POST", name |-> "handler"] \in Documented(routes)

\* C13 witness: a websocket handshake on the prefix took the main route
\* while documentation-only routes were registered, and an HTTP POST on the
\* same path would not.
C13_Witness ==
    /\ response.type = "websocket" /\ response.route = 1 /\ response.status = 101
    /\ Len(routes) > 1
    /\ \E sc \in RequestScopes :
          sc.type = "http" /\ sc.path = Prefix /\ matches(routes[1], sc) = "NONE"
\* The text frames the serving task of c has read so far, in the order sent.
TextRead(c) ==
    SelectSeq(SubSeq(sent[c], 1, Len(sent[c]) - Len(inbox[c])),
              LAMBDA f : f.type = "text")

\* The invocations made for a message on c, in order: the handler ones and
\* the fallback ones that carry a message.
MessageCalls(c) ==
    SelectSeq(calls[c], LAMBDA k : k.fn \in Funcs \/ (k.fn = "_fallback" /\ k.msg # <<>>))

\* The invocation is about this raw message.
CallIsFor(k, raw) ==
    IF k.fn = "_fallback" THEN k.msg = << raw >>
    ELSE /\ ValidatesAs(k.val[1].cls, raw)
         /\ k.val[1] = Construct(k.val[1].cls, raw)

C15_HandlerFailureGoesToFallback ==
    \A c \in Conns : \A k \in HandlerCalls(c) :
        calls[c][k].did = "raise"
        => /\ Cardinality({ j \in FallbackCalls(c) : j > k }) = 1
           /\ \A j \in HandlerCalls(c) : j > k => calls[c][j].val # calls[c][k].val
\* The last frame read on c validated as a schema the mapping has no
\* handler for.
LookupFault(c) ==
    /\ Len(sent[c]) > Len(inbox[c])
    /\ LastRead(c) # <<>>
    /\ adapter # <<>>
    /\ LET validated == validate_json(adapter[1], LastRead(c)[1])
       IN  validated # <<>> /\ Lookup(mapping, validated[1].cls) = <<>>

\* C16: on an accepted connection, in text or in binary mode, no failure of
\* a read (a frame of the other kind included) or of validation leaves the
\* serving task: a serving task that ended with a fault did so because a
\* handler failed or because the validated value had no handler, and every
\* frame read without such a fault was turned into an invocation.
C16_ReadFailuresRecovered ==
    \A c \in Conns :
        OnConnectDid(c, "accept")
        => /\ pc[c] = "raised" =>
                 \/ calls[c][Len(calls[c])].did = "raise"
                 \/ LookupFault(c)
           /\ pc[c] = "returned" => Len(calls[c]) = 2
\* The handler of the latest registration made for the schema, <<>> if none.
LatestFor(rs, M) ==
    LET made == { i \in 1..Len(rs) : rs[i][1] = M }
    IN  IF made = {} THEN <<>>
        ELSE << rs[CHOOSE i \in made : \A k \in made : k <= i][2] >>

\* C17: registering a schema again overwrites its binding: after any
\* registration the mapping holds each registered schema exactly once,
\* bound to the handler of the latest registration made for it, and a
\* handler invoked by the default dispatcher for a value of a schema is the
\* one of the latest registration made for that schema.
C17_LastRegistrationWins ==
    [][ /\ \A i, j \in 1..Len(mapping') : i # j => mapping'[i][1] # mapping'[j][1]
        /\ \A M \in Models : Lookup(mapping', M) = LatestFor(regs', M)
        /\ \A c \in Conns :
              (Dispatched(c) /\ dispatcher = "_dispatcher" /\ Len(calls'[c]) > Len(calls[c]))
              => LET call == calls'[c][Len(calls'[c])]
                 IN  call.fn \in Funcs => << call.fn >> = LatestFor(regs, call.val[1].cls)
      ]_vars

\* C17 witness: UserMessage was registered twice, with different handlers,
\* and a user message was delivered to the handler registered last.
C17_Witness ==
    /\ Len(regs) = 2
    /\ regs[1][1] = "UserMessage" /\ regs[2][1] = "UserMessage"
    /\ regs[1][2] # regs[2][2]
    /\ mapping = << << "UserMessage", regs[2][2] >> >>
    /\ \E c \in Conns : \E k \in HandlerCalls(c) :
          calls[c][k].fn = regs[2][2] /\ calls[c][k].val[1].cls = "UserMessage"

\* C19: the route list is the main entry route followed by one
\* documentation-only route per registration made, in the order made, each
\* with the path given at registration or, when none was given,
\* " (<handler name>)", and with the handler as its endpoint.
C19_RoutesFollowRegistrations ==
    /\ Len(routes) = 1 + Len(regs)
    /\ routes[1] = MainRoute
    /\ \A i \in 1..Len(regs) :
          /\ routes[i + 1].cls = "WSRoute"
          /\ routes[i + 1].endpoint = regs[i][2]
          /\ routes[i + 1].path =
                IF regs[i][3] # <<>> THEN regs[i][3] ELSE << " (", regs[i][2], ")" >>

\* C19 witness: two registrations, the first with a path of its own and the
\* second without, gave the main route and their two routes in that order.
C19_Witness ==
    /\ Len(routes) = 3
    /\ regs[1][3] = << "/post" >> /\ regs[2][3] = <<>>
    /\ routes[2].path = << "/post" >>
    /\ routes[3].path = << " (", regs[2][2], ")" >>
\* C18: messages are dispatched independently of what came before them on
\* the connection: once a session on a router with compiled, distinctly
\* tagged schemas has ended without a fault, a well-formed message that was
\* sent twice on its connection, whatever was sent before it, has invoked a
\* bound handler twice, with equal validated values.
C18_SameMessageTwiceHandledTwice ==
    \A c \in Conns : \A M \in KeySet(mapping) : \A i, j \in TextFrames(c) :
        ( /\ pc[c] = "returned"
          /\ Compiled /\ DistinctTags
          /\ i < j
          /\ sent[c][i] = sent[c][j]
          /\ ValidFor(sent[c][i].text[1], M) )
        => \E k, n \in HandlerCalls(c) :
              /\ k < n
              /\ calls[c][k].val = calls[c][n].val
              /\ calls[c][k].val[1] = Construct(M, sent[c][i].text[1])
\* C20: on a router with no hook registered, the on-connect hook accepts
\* every connection, and when the serving task of a text-mode router has
\* read a binary frame, the fallback hook has been invoked with no message
\* and the "No text received" error, which does nothing.
C20_DefaultHooks ==
    \A c \in Conns :
        (on_connect_hook = "_on_connect" /\ calls[c] # <<>>)
        => /\ calls[c][1] = OnConnectCall(c, "accept")
           /\ ( /\ as_text
                /\ Len(sent[c]) > Len(inbox[c])
                /\ sent[c][1].type = "bytes" )
              => /\ Len(calls[c]) = 2
                 /\ calls[c][2] = FallbackCall(c, <<>>, << NoTextReceived >>)
\* The schemas the compiled adapter validates against.
AdapterModels == IF adapter = <<>> THEN {} ELSE { adapter[1][i] : i \in 1..Len(adapter[1]) }

\* C21: the adapter is compiled only when a connection starts being served,
\* from the schemas registered at that moment; once compiled it is never
\* replaced, whatever is registered afterwards; and a message that is
\* well-formed for a schema registered after the compilation goes to the
\* fallback hook with a validation error, not to the handler of the schema.
C21_AdapterBuiltOnce ==
    [][ /\ adapter # <<>> => adapter' = adapter
        /\ adapter' # adapter =>
              /\ \E c \in Conns : pc[c] = "handler" /\ pc'[c] = "on_connect"
              /\ mapping # <<>> /\ adapter' = << Keys(mapping) >>
        /\ \A c \in Conns : \A M \in KeySet(mapping) \ AdapterModels :
              ( /\ Dispatched(c) /\ adapter # <<>>
                /\ ValidFor(message[c][1], M)
                /\ \A A \in AdapterModels : TagOf(A) # TagOf(M) )
              => calls'[c] = Append(calls[c],
                                FallbackCall(c, << message[c][1] >>, << ValidationError >>))
      ]_vars

\* C21 witness: PostMessage was registered after the adapter had been
\* compiled from UserMessage alone, and a well-formed post message went to
\* the fallback hook.
C21_Witness ==
    \E c \in Conns :
        /\ adapter = << << "UserMessage" >> >>
        /\ "PostMessage" \in KeySet(mapping)
        /\ Len(calls[c]) = 2
        /\ calls[c][2] = FallbackCall(c, << MsgPost >>, << ValidationError >>)
OnConnectCalls(c) == { i \in 1..Len(calls[c]) : calls[c][i].fn = "_on_connect" }

\* C22: in every session the on-connect hook is invoked once, and first:
\* before it nothing has been read or invoked and the adapter step is
\* behind; every read and every other invocation comes after it; and the
\* connection is accepted only if the hook accepted it.
C22_OnConnectFirstAndOnce ==
    \A c \in Conns :
        /\ Cardinality(OnConnectCalls(c)) <= 1
        /\ calls[c] # <<>> =>
              /\ calls[c][1].fn = "_on_connect"
              /\ pc[c] \in {"receive", "dispatch", "returned", "raised"}
        /\ calls[c] = <<>> =>
              /\ Len(sent[c]) = Len(inbox[c])
              /\ message[c] = <<>>
              /\ pc[c] \in {"idle", "deps", "handler", "on_connect", "raised"}
        /\ pc[c] \in {"receive", "dispatch", "returned"} => Cardinality(OnConnectCalls(c)) = 1
        /\ app_state[c] # "CONNECTING" => calls[c] # <<>> /\ calls[c][1].did \in {"accept", "close"}
        /\ app_state[c] = "CONNECTED" => calls[c][1].did = "accept"

\* C22 witness: a session whose on-connect hook neither accepted nor closed
\* ran to its end with the connection never accepted, the hook being its
\* first invocation.
C22_Witness ==
    \E c \in Conns :
        /\ pc[c] = "returned"
        /\ Len(calls[c]) = 2
        /\ calls[c][1] = OnConnectCall(c, "nothing")
        /\ app_state[c] = "CONNECTING"
C24_LookupFaultPropagates ==
    [][\A c \in Conns :
          ( /\ Dispatched(c)
            /\ adapter # <<>>
            /\ validate_json(adapter[1], message[c][1]) # <<>>
            /\ Lookup(mapping, validate_json(adapter[1], message[c][1])[1].cls) = <<>> )
          => /\ pc'[c] = "raised"
             /\ calls'[c] = calls[c]
      ]_vars

\* C24 witness: a session ended with a fault after reading a message that
\* validated as a schema whose binding had been taken out of the mapping;
\* its only invocation is the on-connect hook.
C24_Witness ==
    \E c \in Conns :
        /\ pc[c] = "raised"
        /\ LookupFault(c)
        /\ calls[c] = << OnConnectCall(c, "accept") >>
\* C25: in every state reached by construction, registrations, hook
\* registrations and served connections, every schema of the compiled
\* adapter is a key of the mapping, and no session has read a message
\* that validates as a schema without a handler.
C25_AdapterWithinMapping ==
    /\ AdapterModels \subseteq KeySet(mapping)
    /\ \A c \in Conns : ~LookupFault(c)

\* C25 witness: the adapter was compiled from one schema, a second one was
\* registered afterwards, and a message of the first was delivered to its
\* handler.
C25_Witness ==
    /\ adapter # <<>>
    /\ AdapterModels # KeySet(mapping)
    /\ \E c \in Conns : \E k \in HandlerCalls(c) : calls[c][k].val[1].cls \in AdapterModels
\* The serving task of c has passed the adapter step and is still running.
PastBuild(c) == pc[c] \in {"on_connect", "receive", "dispatch"}

\* The serving task of c takes the adapter step in this step.
Builds(c) == pc[c] = "handler" /\ pc'[c] = "on_connect"

\* C26: a connection served while the mapping is empty leaves the adapter
\* absent; the adapter step of every connection builds it when it is absent
\* and the mapping is not empty, from all the schemas registered by then,
\* and leaves it alone when it is there; so a serving task past the adapter
\* step has an adapter exactly when the mapping is not empty.
C26_BuildRetriedWhileAbsent ==
    [][ /\ mapping' = <<>> => adapter' = <<>>
        /\ \A c \in Conns :
              /\ Builds(c) =>
                    adapter' = IF adapter # <<>> THEN adapter
                               ELSE IF mapping = <<>> THEN <<>>
                               ELSE << Keys(mapping) >>
              /\ (PastBuild(c))' => (adapter' = <<>> <=> mapping' = <<>>)
      ]_vars

\* C26 witness: one connection was served with an empty mapping (its
\* message went to the fallback hook without an error), UserMessage was
\* registered afterwards, and on the next connection the same message was
\* delivered to the handler.
C26_Witness ==
    \E c, d \in Conns :
        /\ c # d
        /\ Len(calls[d]) = 2 /\ calls[d][2] = FallbackCall(d, << MsgUser >>, <<>>)
        /\ Len(calls[c]) = 2 /\ calls[c][2].fn \in Funcs
        /\ calls[c][2].val = << Construct("UserMessage", MsgUser) >>

\* C27: while connections are served concurrently over a mapping that does
\* not change during their sessions, no serving task past the adapter step
\* sees an absent adapter when the mapping is not empty, and the adapter
\* it sees is the whole key list of the mapping as it was after some
\* registration, never a part of one.
C27_ConsistentAdapterUnderRace ==
    \A c \in Conns :
        PastBuild(c) =>
            /\ mapping # <<>> => adapter # <<>>
            /\ adapter # <<>> =>
                  \E n \in 1..Len(regs) :
                      /\ Len(adapter[1]) = Cardinality({ regs[i][1] : i \in 1..n })
                      /\ \A i \in 1..n : \E j \in 1..Len(adapter[1]) : adapter[1][j] = regs[i][1]

\* C27 witness: two connections that both started before the adapter
\* existed are dispatching at the same time, against the adapter compiled
\* from both registered schemas.
C27_Witness ==
    /\ \A c \in Conns : pc[c] = "dispatch"
    /\ Len(mapping) = 2
    /\ adapter = << Keys(mapping) >>

\* Everything the router holds about the session on c.
Session(c) == << pc[c], app_state[c], scope[c], inbox[c], message[c], calls[c], sent[c],
                 client[c] >>

\* C28: sessions served concurrently are independent: every invocation of
\* a session got the connection of that session, the invocations made for
\* messages are about frames sent on that connection, an on-disconnect
\* invocation carries the close frame sent on it, and no step changes the
\* state of two sessions.
C28_SessionsIndependent ==
    [][ /\ \A c \in Conns : \A i \in 1..Len(calls'[c]) :
              /\ calls'[c][i].ws = c
              /\ calls'[c][i].fn = "_on_disconnect" =>
                    \E k \in 1..Len(sent'[c]) :
                        sent'[c][k] = CloseFrame(calls'[c][i].code, calls'[c][i].reason)
              /\ (calls'[c][i].fn \in Funcs \/ (calls'[c][i].fn = "_fallback"
                                                  /\ calls'[c][i].msg # <<>>)) =>
                    \E k \in 1..Len(sent'[c]) :
                        sent'[c][k].type = "text" /\ CallIsFor(calls'[c][i], sent'[c][k].text[1])
        /\ \A c, d \in Conns :
              (c # d /\ (Session(c))' # Session(c)) => (Session(d))' = Session(d)
      ]_vars

\* C28 witness: two sessions are under way at once, one with its message
\* delivered to a handler and the other with its peer's disconnect handed
\* to the on-disconnect hook.
C28_Witness ==
    \E c, d \in Conns :
        /\ c # d
        /\ pc[c] = "returned" /\ pc[d] = "returned"
        /\ Len(calls[c]) = 2 /\ calls[c][2].fn \in Funcs /\ calls[c][2].ws = c
        /\ Len(calls[d]) = 2 /\ calls[d][2] = OnDisconnectCall(d, 1000, "")
\* What the dispatch step of c has added to the invocations of c.
Added(c) == SubSeq(calls'[c], Len(calls[c]) + 1, Len(calls'[c]))

\* C29: for a read message the default dispatcher invokes either one bound
\* handler or the fallback hook, never both and never neither; when the
\* handler raises, a validation error included, the handler invocation is
\* the only one made for the message and the failure leaves the serving
\* task.
C29_HandlerXorFallback ==
    [][ \A c \in Conns :
          (Dispatched(c) /\ dispatcher = "_dispatcher") =>
              LET new == Added(c)
                  hs == { i \in 1..Len(new) : new[i].fn \in Funcs }
                  fs == { i \in 1..Len(new) : new[i].fn = "_fallback" }
              IN  /\ hs \cup fs = 1..Len(new)
                  /\ (hs = {}) # (fs = {})
                  /\ Cardinality(hs) <= 1
                  /\ \A i \in hs : new[i].did # "return" => pc'[c] = "raised"
      ]_vars

\* C29 witness: a handler raised a validation error of its own; its
\* invocation is the last one of the session, which ended with the failure.
C29_Witness ==
    \E c \in Conns :
        /\ pc[c] = "raised"
        /\ Len(calls[c]) = 2
        /\ calls[c][2].fn \in Funcs
        /\ calls[c][2].did = "raise_ValidationError"

\* C30: the fallback hook is invoked at most once for a message, whatever
\* the hook does: a session has no more fallback invocations carrying a
\* message than messages read.
C30_FallbackAtMostOncePerMessage ==
    \A c \in Conns :
        Cardinality({ i \in FallbackCalls(c) : calls[c][i].msg # <<>> }) <= Len(TextRead(c))
====
